---- MODULE Spec2Model ----
(***************************************************************************)
(* Model of scripts/generate_lenses.py: the resume-lens generator.         *)
(*                                                                         *)
(* Text is modelled as a sequence of atoms.  An atom is one character      *)
(* (" ", "{", a quote, a newline ...) or an opaque run of characters that  *)
(* no operation looks inside: it holds no newline and neither starts nor   *)
(* ends with whitespace (a word such as "generated_text", a sentence or a  *)
(* template line of the prompt).  Python's 0-based indices are kept:       *)
(* text[k] in the source is text[k + 1] here.                              *)
(***************************************************************************)
EXTENDS Integers, Sequences, FiniteSets, TLC

VARIABLES
    pc,             \* position of main(): start, loop, call, extract, assemble,
                    \* done, failed
    run,            \* number of the current invocation of the program
    clock,          \* wall clock read by datetime.now (seconds)
    resume_exists,  \* RESUME_PATH.exists()
    resume_file,    \* contents of RESUME_PATH
    environ,        \* os.environ restricted to HF_API_TOKEN, HF_TOKEN, HF_MODEL
    stub,           \* the remote endpoint: prompt -> outcome of the HTTP exchange
    output_file,    \* contents of OUTPUT_PATH (NoFile when it does not exist)
    resume_text,    \* main's local resume_text
    lens_index,     \* position of the for loop of generate_sections in LENSES
    prompt,         \* generate_sections' local prompt
    raw_output,     \* generate_sections' local raw_output
    payload,        \* generate_sections' local payload
    sections,       \* generate_sections' local sections
    error,          \* the uncaught exception that ended the run (NoError if none)
    requests,       \* history: the HTTP requests issued in the current run
    writes,         \* history: number of writes of OUTPUT_PATH in the current run
    file_at_start,  \* history: contents of OUTPUT_PATH when the current run began
    documents       \* history: the documents written, one per successful run

vars == <<pc, run, clock, resume_exists, resume_file, environ, stub, output_file,
          resume_text, lens_index, prompt, raw_output, payload, sections, error,
          requests, writes, file_at_start, documents>>

---------------------------------------------------------------------------
(* Python values.  Every value is a record of the same four fields so that *)
(* values of different Python types can be compared.                       *)

JV(t, s, keys, kids) == [t |-> t, s |-> s, keys |-> keys, kids |-> kids]
JStr(s) == JV("str", s, <<>>, <<>>)
JNum(s) == JV("num", s, <<>>, <<>>)
JNull == JV("null", <<>>, <<>>, <<>>)
JTrue == JV("true", <<>>, <<>>, <<>>)
JFalse == JV("false", <<>>, <<>>, <<>>)
JList(kids) == JV("list", <<>>, <<>>, kids)
JDict(keys, kids) == JV("dict", <<>>, keys, kids)

\* Characters str.strip() removes and json skips between tokens.
Whitespace == {" ", "\n", "\t", "\r"}

\* Characters textwrap.dedent treats as indentation.
Blank == {" ", "\t"}

Digits == {"0", "1", "2", "3", "4", "5", "6", "7", "8", "9"}

\* The two-character escapes of a JSON string and the character each denotes.
Escapes == {"\\\"", "\\\\", "\\n", "\\t"}

Unescape(a) ==
    CASE a = "\\\"" -> "\""
      [] a = "\\\\" -> "\\"
      [] a = "\\n" -> "\n"
      [] a = "\\t" -> "\t"

\* dict[key] = value: a repeated key keeps its position and takes the new value.
dict_set(keys, kids, key, value) ==
    IF \E i \in 1..Len(keys) : keys[i] = key
    THEN LET i == CHOOSE i \in 1..Len(keys) : keys[i] = key
         IN  [keys |-> keys, kids |-> [kids EXCEPT ![i] = value]]
    ELSE [keys |-> Append(keys, key), kids |-> Append(kids, value)]

dict_has(d, key) == \E i \in 1..Len(d.keys) : d.keys[i] = key

\* dict.get(key, default)
dict_get(d, key, default) ==
    IF dict_has(d, key)
    THEN d.kids[CHOOSE i \in 1..Len(d.keys) : d.keys[i] = key]
    ELSE default

---------------------------------------------------------------------------
(* json.loads                                                              *)

ParseFail == [ok |-> FALSE, pos |-> 0, val |-> JNull]
ParseOk(v, p) == [ok |-> TRUE, pos |-> p, val |-> v]

At(s, i, c) == i <= Len(s) /\ s[i] = c

RECURSIVE skip_ws(_, _)
skip_ws(s, i) ==
    IF i <= Len(s) /\ s[i] \in Whitespace THEN skip_ws(s, i + 1) ELSE i

\* The position of the first quote at or after i, or 0 when there is none.
\* An escaped quote is the atom "\\\"", so a quote atom always closes.
closing_quote(s, i) ==
    IF \E j \in i..Len(s) : s[j] = "\""
    THEN CHOOSE j \in i..Len(s) : s[j] = "\"" /\ \A k \in i..(j - 1) : s[k] # "\""
    ELSE 0

\* i is the position after the opening quote.  A control character or a
\* backslash that starts no escape ends the scan with an error.
scan_string(s, i) ==
    LET j == closing_quote(s, i)
    IN  IF j = 0 THEN ParseFail
        ELSE IF \E k \in i..(j - 1) : s[k] \in {"\n", "\t", "\r", "\\"} THEN ParseFail
        ELSE ParseOk(JStr([k \in 1..(j - i) |->
                             IF s[i + k - 1] \in Escapes THEN Unescape(s[i + k - 1])
                             ELSE s[i + k - 1]]),
                     j + 1)

RECURSIVE scan_digits(_, _)
scan_digits(s, i) ==
    IF i <= Len(s) /\ s[i] \in Digits THEN scan_digits(s, i + 1) ELSE i

\* -?(0|[1-9][0-9]*)
scan_number(s, i) ==
    LET d == IF At(s, i, "-") THEN i + 1 ELSE i
    IN  IF d > Len(s) \/ s[d] \notin Digits THEN ParseFail
        ELSE LET e == IF s[d] = "0" THEN d + 1 ELSE scan_digits(s, d)
             IN  ParseOk(JNum(SubSeq(s, i, e - 1)), e)

RECURSIVE parse_value(_, _), parse_members(_, _, _, _), parse_items(_, _, _)
parse_value(s, i) ==
    IF i > Len(s) THEN ParseFail
    ELSE IF s[i] = "\"" THEN scan_string(s, i + 1)
    ELSE IF s[i] = "{" THEN
        LET j == skip_ws(s, i + 1)
        IN  IF At(s, j, "}") THEN ParseOk(JDict(<<>>, <<>>), j + 1)
            ELSE parse_members(s, j, <<>>, <<>>)
    ELSE IF s[i] = "[" THEN
        LET j == skip_ws(s, i + 1)
        IN  IF At(s, j, "]") THEN ParseOk(JList(<<>>), j + 1)
            ELSE parse_items(s, j, <<>>)
    ELSE IF s[i] = "null" THEN ParseOk(JNull, i + 1)
    ELSE IF s[i] = "true" THEN ParseOk(JTrue, i + 1)
    ELSE IF s[i] = "false" THEN ParseOk(JFalse, i + 1)
    ELSE scan_number(s, i)

\* j is where the next key's opening quote must be.
parse_members(s, j, keys, kids) ==
    IF ~At(s, j, "\"") THEN ParseFail
    ELSE LET k == scan_string(s, j + 1)
         IN  IF ~k.ok THEN ParseFail
             ELSE LET c == skip_ws(s, k.pos)
                  IN  IF ~At(s, c, ":") THEN ParseFail
                      ELSE LET v == parse_value(s, skip_ws(s, c + 1))
                           IN  IF ~v.ok THEN ParseFail
                               ELSE LET e == skip_ws(s, v.pos)
                                        d == dict_set(keys, kids, k.val.s, v.val)
                                    IN  IF At(s, e, "}")
                                        THEN ParseOk(JDict(d.keys, d.kids), e + 1)
                                        ELSE IF At(s, e, ",")
                                        THEN parse_members(s, skip_ws(s, e + 1),
                                                           d.keys, d.kids)
                                        ELSE ParseFail

\* j is where the next element must start.
parse_items(s, j, kids) ==
    LET v == parse_value(s, j)
    IN  IF ~v.ok THEN ParseFail
        ELSE LET e == skip_ws(s, v.pos)
             IN  IF At(s, e, "]") THEN ParseOk(JList(Append(kids, v.val)), e + 1)
                 ELSE IF At(s, e, ",")
                 THEN parse_items(s, skip_ws(s, e + 1), Append(kids, v.val))
                 ELSE ParseFail

\* One value, surrounded by optional whitespace, and nothing else.
json_loads(s) ==
    LET r == parse_value(s, skip_ws(s, 1))
    IN  IF r.ok /\ skip_ws(s, r.pos) = Len(s) + 1 THEN r ELSE ParseFail

---------------------------------------------------------------------------
(* Python built-ins used by the script                                     *)

\* What a call produced: a returned value, or the exception it raised with
\* the value the exception object carries (NoPayload when it carries none).
NoPayload == JV("absent", <<>>, <<>>, <<>>)
Return(v) == [kind |-> "return", type |-> "", msg |-> "", val |-> v]
Raise(type, msg, carried) == [kind |-> "raise", type |-> type, msg |-> msg, val |-> carried]

\* str.find(ch): the 0-based index of the first occurrence, or -1.
find(s, ch) ==
    IF \E i \in 1..Len(s) : s[i] = ch
    THEN (CHOOSE i \in 1..Len(s) : s[i] = ch /\ \A j \in 1..(i - 1) : s[j] # ch) - 1
    ELSE -1

\* Mutant of rfind: the first occurrence is taken for the last.
rfind_first(s, ch) == find(s, ch)

\* str.rfind(ch): the 0-based index of the last occurrence, or -1.
rfind(s, ch) ==
    IF \E i \in 1..Len(s) : s[i] = ch
    THEN (CHOOSE i \in 1..Len(s) : s[i] = ch /\ \A j \in (i + 1)..Len(s) : s[j] # ch) - 1
    ELSE -1

RECURSIVE lstrip(_)
lstrip(s) == IF s # <<>> /\ Head(s) \in Whitespace THEN lstrip(Tail(s)) ELSE s

RECURSIVE rstrip(_)
rstrip(s) ==
    IF s # <<>> /\ s[Len(s)] \in Whitespace THEN rstrip(SubSeq(s, 1, Len(s) - 1)) ELSE s

\* str.strip()
strip(s) == rstrip(lstrip(s))

\* bool(v)
truthy(v) ==
    CASE v.t = "str" -> v.s # <<>>
      [] v.t = "num" -> v.s \notin {<<"0">>, <<"-", "0">>}
      [] v.t = "list" -> v.kids # <<>>
      [] v.t = "dict" -> v.keys # <<>>
      [] v.t = "true" -> TRUE
      [] OTHER -> FALSE

RECURSIVE repr_chars(_)
repr_chars(s) ==
    IF s = <<>> THEN <<>>
    ELSE <<CASE Head(s) = "\n" -> "\\n"
             [] Head(s) = "\t" -> "\\t"
             [] Head(s) = "\\" -> "\\\\"
             [] OTHER -> Head(s)>> \o repr_chars(Tail(s))

\* repr() of a str: single quotes unless the text holds one and no double quote.
repr_str(s) ==
    LET q == IF (\E i \in 1..Len(s) : s[i] = "'") /\ ~(\E i \in 1..Len(s) : s[i] = "\"")
             THEN "\"" ELSE "'"
    IN  <<q>> \o repr_chars(s) \o <<q>>

\* repr(v), and its pieces for the elements of a list and the items of a dict.
RECURSIVE py_repr(_), repr_items(_, _), repr_members(_, _, _)
py_repr(v) ==
    CASE v.t = "str" -> repr_str(v.s)
      [] v.t = "num" -> v.s
      [] v.t = "null" -> <<"None">>
      [] v.t = "true" -> <<"True">>
      [] v.t = "false" -> <<"False">>
      [] v.t = "list" -> <<"[">> \o repr_items(v.kids, 1) \o <<"]">>
      [] v.t = "dict" -> <<"{">> \o repr_members(v.keys, v.kids, 1) \o <<"}">>

repr_items(kids, i) ==
    IF i > Len(kids) THEN <<>>
    ELSE py_repr(kids[i]) \o (IF i < Len(kids) THEN <<",", " ">> ELSE <<>>)
         \o repr_items(kids, i + 1)

repr_members(keys, kids, i) ==
    IF i > Len(kids) THEN <<>>
    ELSE repr_str(keys[i]) \o <<":", " ">> \o py_repr(kids[i])
         \o (IF i < Len(kids) THEN <<",", " ">> ELSE <<>>)
         \o repr_members(keys, kids, i + 1)

\* str(v): the text itself for a str, repr(v) for everything else.
py_str(v) == IF v.t = "str" THEN v.s ELSE py_repr(v)

---------------------------------------------------------------------------
(* extract_json_block                                                      *)

\* Mutant of json_snippet: the slice has no end, text[start:].
json_snippet_to_end(s) == SubSeq(s, find(s, "{") + 1, Len(s))

\* text[start : end + 1] for start = text.find("{") and end = text.rfind("}").
json_snippet(s) == SubSeq(s, find(s, "{") + 1, rfind(s, "}") + 1)

extract_json_block(text) ==
    IF text.t # "str" THEN Raise("AttributeError", "no attribute 'find'", NoPayload)
    ELSE LET start == find(text.s, "{")
             end == rfind(text.s, "}")
         IN  IF start = -1 \/ end = -1 \/ end <= start
             THEN Raise("ValueError", "Model response did not contain JSON", text)
             ELSE LET p == json_loads(json_snippet(text.s))
                  IN  IF p.ok THEN Return(p.val)
                      ELSE Raise("JSONDecodeError", "", JStr(json_snippet(text.s)))

---------------------------------------------------------------------------
(* call_hugging_face: what follows the HTTP exchange                       *)

GENERATED_TEXT == <<"generated_text">>

\* Lines 92-100: decode the body of a 2xx response.
decode_response(body) ==
    LET p == json_loads(body)
        parsed == p.val
    IN  IF ~p.ok THEN Raise("JSONDecodeError", "", JStr(body))
        ELSE IF parsed.t = "list" /\ truthy(parsed)
        THEN IF parsed.kids[1].t # "dict"
             THEN Raise("AttributeError", "no attribute 'get'", NoPayload)
             ELSE LET generated == dict_get(parsed.kids[1], GENERATED_TEXT, JStr(<<>>))
                  IN  IF ~truthy(generated)
                      THEN Raise("ValueError", "Unexpected response payload", parsed)
                      ELSE Return(generated)
        ELSE IF parsed.t = "dict" /\ dict_has(parsed, GENERATED_TEXT)
        THEN Return(JStr(py_str(dict_get(parsed, GENERATED_TEXT, JNull))))
        ELSE Raise("ValueError", "Unhandled response structure", parsed)

---------------------------------------------------------------------------
(* Configuration table                                                     *)

\* LENSES, in insertion order.  An instruction is the concatenation of the
\* adjacent string literals of the source, each kept as one atom.
LENSES == <<
    [id |-> "ai-privacy",
     title |-> "AI + privacy",
     instruction |-> <<
        "Summarise how George Larson applies AI while protecting privacy and regulated data.", " ",
        "Focus on applied systems, leadership signals, and measurable outcomes.", " ",
        "Return bullet points that show real projects, not generic traits.">>,
     recommended_terms |-> <<"privacy", "AI", "OCR", "security", "tabletop">>],
    [id |-> "manufacturing-ops",
     title |-> "Manufacturing operations",
     instruction |-> <<
        "Summarise George Larson's experience with manufacturing, firmware, and production systems.", " ",
        "Highlight uptime improvements, hardware labs, and PLC or robotics work.">>,
     recommended_terms |-> <<"manufacturing", "TiVo", "PLC", "conveyors", "uptime">>],
    [id |-> "technology-leadership",
     title |-> "Technology leadership",
     instruction |-> <<
        "Summarise George Larson's leadership style.", " ",
        "Cover roadmaps, mixed teams, communication, and how he balances hands-on work with management.">>,
     recommended_terms |-> <<"roadmap", "team", "Agile", "mentorship", "leadership">>]
>>

\* spec.get("source_notes", []): no entry of LENSES has the key.
source_notes_of(spec) == <<>>

HF_DEFAULT_MODEL == "mistralai/Mistral-7B-Instruct-v0.3"

MODEL_HINT == "Generated via Hugging Face Inference API (default mistralai/Mistral-7B-Instruct-v0.3)."

---------------------------------------------------------------------------
(* textwrap.dedent                                                         *)

\* text.split("\n")
RECURSIVE split_lines(_)
split_lines(s) ==
    LET i == find(s, "\n")
    IN  IF i = -1 THEN <<s>>
        ELSE <<SubSeq(s, 1, i)>> \o split_lines(SubSeq(s, i + 2, Len(s)))

\* "\n".join(lines)
RECURSIVE join_lines(_)
join_lines(lines) ==
    IF Len(lines) = 1 THEN lines[1]
    ELSE lines[1] \o <<"\n">> \o join_lines(Tail(lines))

\* _whitespace_only_re: a line made of spaces and tabs only becomes empty.
normalize_line(line) ==
    IF \A i \in 1..Len(line) : line[i] \in Blank THEN <<>> ELSE line

\* _leading_whitespace_re: the run of spaces and tabs a line starts with.
RECURSIVE indent_of(_)
indent_of(line) ==
    IF line # <<>> /\ Head(line) \in Blank THEN <<Head(line)>> \o indent_of(Tail(line))
    ELSE <<>>

starts_with(s, prefix) ==
    Len(prefix) <= Len(s) /\ SubSeq(s, 1, Len(prefix)) = prefix

RECURSIVE common_prefix(_, _)
common_prefix(a, b) ==
    IF a # <<>> /\ b # <<>> /\ Head(a) = Head(b)
    THEN <<Head(a)>> \o common_prefix(Tail(a), Tail(b))
    ELSE <<>>

\* One turn of dedent's loop over the indents; margin is None before the first.
next_margin(margin, indent) ==
    IF margin = "None" THEN indent
    ELSE IF starts_with(indent, margin) THEN margin
    ELSE IF starts_with(margin, indent) THEN indent
    ELSE common_prefix(margin, indent)

RECURSIVE fold_margin(_, _, _)
fold_margin(lines, i, margin) ==
    IF i > Len(lines) THEN margin
    ELSE IF lines[i] = <<>> THEN fold_margin(lines, i + 1, margin)
    ELSE fold_margin(lines, i + 1, next_margin(margin, indent_of(lines[i])))

\* re.sub(r'(?m)^' + margin, '', text), on one line.
cut_margin(line, margin) ==
    IF starts_with(line, margin) THEN SubSeq(line, Len(margin) + 1, Len(line)) ELSE line

dedent(text) ==
    LET raw == split_lines(text)
        lines == [i \in 1..Len(raw) |-> normalize_line(raw[i])]
        margin == fold_margin(lines, 1, "None")
    IN  IF margin = "None" \/ margin = <<>> THEN join_lines(lines)
        ELSE join_lines([i \in 1..Len(lines) |-> cut_margin(lines[i], margin)])

---------------------------------------------------------------------------
(* generate_sections: the prompt                                           *)

\* Column at which the f-string's lines are written in the source.
INDENT == 12

Spaces(n) == [i \in 1..n |-> " "]

TemplateLine(extra, atoms) == Spaces(INDENT + extra) \o atoms \o <<"\n">>

\* The f-string of lines 116-135 with resume_text and spec['instruction'] filled in.
prompt_template(text, instruction) ==
    <<"\n">>
    \o TemplateLine(0, <<"System:">>)
    \o TemplateLine(0, <<"You generate concise JSON summaries for professional resumes. Do not include commentary outside JSON.">>)
    \o <<"\n">>
    \o TemplateLine(0, <<"Resume:">>)
    \o TemplateLine(0, text)
    \o <<"\n">>
    \o TemplateLine(0, <<"Instruction:">>)
    \o TemplateLine(0, instruction)
    \o <<"\n">>
    \o TemplateLine(0, <<"Format:">>)
    \o TemplateLine(0, <<"{">>)
    \o TemplateLine(2, <<"\"summary\": \"<80-120 word paragraph>\",">>)
    \o TemplateLine(2, <<"\"bullets\": [">>)
    \o TemplateLine(4, <<"\"bullet one\",">>)
    \o TemplateLine(4, <<"\"bullet two\",">>)
    \o TemplateLine(4, <<"\"bullet three\"">>)
    \o TemplateLine(2, <<"]">>)
    \o TemplateLine(0, <<"}">>)
    \o Spaces(INDENT)

\* dedent(f"""...""").strip()
build_prompt(text, instruction) == strip(dedent(prompt_template(text, instruction)))

---------------------------------------------------------------------------
(* generate_sections: from the recovered JSON object to a LensResult       *)

\* What "for item in value" yields; only these three types are iterable here.
iterable(v) == v.t \in {"list", "str", "dict"}

\* Mutant of iter_items: a string is taken as one item, not as its characters.
iter_items_wrapping(v) ==
    CASE v.t = "list" -> v.kids
      [] v.t = "str" -> <<v>>
      [] v.t = "dict" -> [i \in 1..Len(v.keys) |-> JStr(v.keys[i])]

iter_items(v) ==
    CASE v.t = "list" -> v.kids
      [] v.t = "str" -> [i \in 1..Len(v.s) |-> JStr(<<v.s[i]>>)]
      [] v.t = "dict" -> [i \in 1..Len(v.keys) |-> JStr(v.keys[i])]

\* [str(item).strip() for item in items if str(item).strip()]
RECURSIVE stripped_items(_)
stripped_items(items) ==
    IF items = <<>> THEN <<>>
    ELSE (IF strip(py_str(Head(items))) # <<>> THEN <<strip(py_str(Head(items)))>> ELSE <<>>)
         \o stripped_items(Tail(items))

\* Number of bullets kept: the 3 of bullets[:3].
KEY_POINTS == 3

\* s[:n]
first_n(s, n) == SubSeq(s, 1, IF Len(s) < n THEN Len(s) ELSE n)

\* Mutant of key_points_of: the slice is forgotten.
key_points_uncapped(bullets) == bullets

\* bullets[:3]
key_points_of(bullets) == first_n(bullets, KEY_POINTS)

SUMMARY == <<"summary">>
BULLETS == <<"bullets">>

\* Lines 139-150: the record appended to sections, or the exception raised.
lens_result(spec, object) ==
    IF object.t # "dict" THEN Raise("AttributeError", "no attribute 'get'", NoPayload)
    ELSE LET summary == strip(py_str(dict_get(object, SUMMARY, JStr(<<>>))))
             source == dict_get(object, BULLETS, JList(<<>>))
         IN  IF ~iterable(source)
             THEN Raise("TypeError", "object is not iterable", NoPayload)
             ELSE Return([id |-> spec.id,
                          title |-> spec.title,
                          summary |-> summary,
                          key_points |-> key_points_of(stripped_items(iter_items(source))),
                          recommended_terms |-> spec.recommended_terms,
                          source_notes |-> source_notes_of(spec)])

---------------------------------------------------------------------------
(* The environment of a run                                                *)

\* The value of an environment variable that is not set.
Unset == "<unset>"

\* os.environ.get("HF_API_TOKEN") or os.environ.get("HF_TOKEN")
resolve_token(env) ==
    IF env.HF_API_TOKEN \notin {Unset, ""} THEN env.HF_API_TOKEN ELSE env.HF_TOKEN

\* os.environ.get("HF_MODEL", HF_DEFAULT_MODEL)
resolve_model(env) == IF env.HF_MODEL = Unset THEN HF_DEFAULT_MODEL ELSE env.HF_MODEL

\* Lines 82-90: what the HTTP exchange hands to the rest of call_hugging_face.
http_exchange(outcome) ==
    CASE outcome.net = "URLError" ->
            Raise("RuntimeError", "Failed to reach Hugging Face API", NoPayload)
      [] outcome.net = "HTTPError" ->
            Raise("RuntimeError", "Hugging Face API error", JStr(outcome.body))
      [] outcome.net = "timeout" ->
            Raise("TimeoutError", "The read operation timed out", NoPayload)
      [] outcome.net = "ok" -> decode_response(outcome.body)

\* Mutant of output_document: the time of the run leaks into model_hint.
output_document_stamped(now, lenses) ==
    [generated_at |-> now, model_hint |-> <<MODEL_HINT, now>>, lenses |-> lenses]

\* The payload main() serialises (lines 157-161).
output_document(now, lenses) ==
    [generated_at |-> now, model_hint |-> MODEL_HINT, lenses |-> lenses]

NoFile == [generated_at |-> -1, model_hint |-> "", lenses |-> <<>>]
NoError == Return(JNull)

---------------------------------------------------------------------------
(* Inputs of the program                                                   *)

\* Number of invocations of the program followed, one after the other.
MaxRuns == 2

\* Contents of resume.txt: one line, and several lines of which one is indented.
ResumeTexts == {<<"r">>, <<"r", "\n", " ", "r">>}

Environments ==
    [HF_API_TOKEN : {Unset, "", "hf_primary"},
     HF_TOKEN : {Unset, "hf_fallback"},
     HF_MODEL : {Unset, "org/model"}]

\* Bodies of 2xx responses.
\* [{"generated_text": "{\"summary\": \"  hi  \", \"bullets\": [\"  a  \", \"\", \"b\", \"c\", \"d\"]}"}]
BODY_LIST ==
    <<"[", "{", "\"", "generated_text", "\"", ":", " ", "\"", "{", "\\\"", "summary", "\\\"",
      ":", " ", "\\\"", " ", " ", "hi", " ", " ", "\\\"", ",", " ", "\\\"", "bullets", "\\\"",
      ":", " ", "[", "\\\"", " ", " ", "a", " ", " ", "\\\"", ",", " ", "\\\"", "\\\"", ",",
      " ", "\\\"", "b", "\\\"", ",", " ", "\\\"", "c", "\\\"", ",", " ", "\\\"", "d", "\\\"",
      "]", "}", "\"", "}", "]">>

\* {"generated_text": "Sure: {\"summary\": \"s\", \"bullets\": \" a b  c d\"} done"}
BODY_DICT ==
    <<"{", "\"", "generated_text", "\"", ":", " ", "\"", "Sure", ":", " ", "{", "\\\"",
      "summary", "\\\"", ":", " ", "\\\"", "s", "\\\"", ",", " ", "\\\"", "bullets", "\\\"",
      ":", " ", "\\\"", " ", "a", " ", "b", " ", " ", "c", " ", "d", "\\\"", "}", " ", "done",
      "\"", "}">>

\* []
BODY_EMPTY_LIST == <<"[", "]">>

\* {"generated_text": "sorry"}
BODY_NO_JSON == <<"{", "\"", "generated_text", "\"", ":", " ", "\"", "sorry", "\"", "}">>

\* ["x"]
BODY_NOT_OBJECT == <<"[", "\"", "x", "\"", "]">>

\* {"generated_text": "{oops}"}
BODY_BAD_JSON ==
    <<"{", "\"", "generated_text", "\"", ":", " ", "\"", "{", "oops", "}", "\"", "}">>

\* Service Unavailable
BODY_NOT_JSON == <<"Service", " ", "Unavailable">>

Outcome(net, code, body) == [net |-> net, code |-> code, body |-> body]

\* What urlopen can do with one request.
Outcomes ==
    {Outcome("URLError", 0, <<>>),
     Outcome("timeout", 0, <<>>),
     Outcome("HTTPError", 500, <<"Internal", " ", "Server", " ", "Error">>)}
    \cup {Outcome("ok", 200, b) :
            b \in {BODY_LIST, BODY_DICT, BODY_EMPTY_LIST, BODY_NO_JSON,
                   BODY_NOT_OBJECT, BODY_BAD_JSON, BODY_NOT_JSON}}

\* A document left at OUTPUT_PATH by an earlier run.
OldDocument == output_document(0, <<>>)

---------------------------------------------------------------------------
(* main()                                                                  *)

Init ==
    /\ pc = "start"
    /\ run = 1
    /\ clock = 1
    /\ resume_exists \in BOOLEAN
    /\ resume_file \in (IF resume_exists THEN ResumeTexts ELSE {<<>>})
    /\ environ \in Environments
    /\ stub = <<>>
    /\ output_file \in {NoFile, OldDocument}
    /\ resume_text = <<>>
    /\ lens_index = 0
    /\ prompt = <<>>
    /\ raw_output = JNull
    /\ payload = JNull
    /\ sections = <<>>
    /\ error = NoError
    /\ requests = <<>>
    /\ writes = 0
    /\ file_at_start = output_file
    /\ documents = <<>>

\* The run ends with an uncaught exception.
Abort(exc) ==
    /\ pc' = "failed"
    /\ error' = exc

\* Mutant of LoadResume: a missing file is read as an empty resume.
LoadResume_MissingAsEmpty ==
    /\ pc = "start"
    /\ resume_text' = resume_file
    /\ lens_index' = 1
    /\ pc' = "loop"
    /\ UNCHANGED <<run, clock, resume_exists, resume_file, environ, stub,
                   output_file, prompt, raw_output, payload, sections, error,
                   requests, writes, file_at_start, documents>>

\* Line 155 and load_resume.
LoadResume ==
    /\ pc = "start"
    /\ IF ~resume_exists
       THEN /\ Abort(Raise("FileNotFoundError", "Missing resume source", NoPayload))
            /\ UNCHANGED <<resume_text, lens_index>>
       ELSE /\ resume_text' = resume_file
            /\ lens_index' = 1
            /\ pc' = "loop"
            /\ UNCHANGED error
    /\ UNCHANGED <<run, clock, resume_exists, resume_file, environ, stub,
                   output_file, prompt, raw_output, payload, sections, requests,
                   writes, file_at_start, documents>>

\* Mutant of BuildPrompt: every turn of the loop uses the first entry.
BuildPrompt_FirstEntry ==
    /\ pc = "loop"
    /\ lens_index <= Len(LENSES)
    /\ prompt' = build_prompt(resume_text, LENSES[1].instruction)
    /\ pc' = "call"
    /\ UNCHANGED <<run, clock, resume_exists, resume_file, environ, stub,
                   output_file, resume_text, lens_index, raw_output, payload,
                   sections, error, requests, writes, file_at_start, documents>>

\* Lines 114-136: the loop takes the next entry of LENSES and builds its prompt.
BuildPrompt ==
    /\ pc = "loop"
    /\ lens_index <= Len(LENSES)
    /\ prompt' = build_prompt(resume_text, LENSES[lens_index].instruction)
    /\ pc' = "call"
    /\ UNCHANGED <<run, clock, resume_exists, resume_file, environ, stub,
                   output_file, resume_text, lens_index, raw_output, payload,
                   sections, error, requests, writes, file_at_start, documents>>

\* The request urlopen sends (lines 67-82).
http_request(env, inputs) ==
    [url |-> <<"https://api-inference.huggingface.co/models/", resolve_model(env)>>,
     authorization |-> <<"Bearer ", resolve_token(env)>>,
     inputs |-> inputs]

\* Line 137 and call_hugging_face.  The endpoint answers a prompt it has
\* already seen the way it answered before.
CallHuggingFace ==
    /\ pc = "call"
    /\ IF resolve_token(environ) \in {Unset, ""}
       THEN /\ Abort(Raise("EnvironmentError", "HF_API_TOKEN (or HF_TOKEN) is not set", NoPayload))
            /\ UNCHANGED <<stub, requests, raw_output>>
       ELSE \E answer \in (IF prompt \in DOMAIN stub THEN {stub[prompt]} ELSE Outcomes) :
            /\ stub' = (prompt :> answer) @@ stub
            /\ requests' = Append(requests, http_request(environ, prompt))
            /\ LET r == http_exchange(answer)
               IN  IF r.kind = "return"
                   THEN /\ raw_output' = r.val
                        /\ pc' = "extract"
                        /\ UNCHANGED error
                   ELSE /\ Abort(r)
                        /\ UNCHANGED raw_output
    /\ UNCHANGED <<run, clock, resume_exists, resume_file, environ, output_file,
                   resume_text, lens_index, prompt, payload, sections, writes,
                   file_at_start, documents>>

\* Line 138: payload = extract_json_block(raw_output)
ExtractBlock ==
    /\ pc = "extract"
    /\ LET block == extract_json_block(raw_output)
       IN  IF block.kind = "raise"
           THEN /\ Abort(block)
                /\ UNCHANGED payload
           ELSE /\ payload' = block.val
                /\ pc' = "assemble"
                /\ UNCHANGED error
    /\ UNCHANGED <<run, clock, resume_exists, resume_file, environ, stub,
                   output_file, resume_text, lens_index, prompt, raw_output,
                   sections, requests, writes, file_at_start, documents>>

\* Lines 139-150: read the fields of the payload and append the result.
AppendSection ==
    /\ pc = "assemble"
    /\ LET made == lens_result(LENSES[lens_index], payload)
       IN  IF made.kind = "raise"
           THEN /\ Abort(made)
                /\ UNCHANGED <<sections, lens_index>>
           ELSE /\ sections' = Append(sections, made.val)
                /\ lens_index' = lens_index + 1
                /\ pc' = "loop"
                /\ UNCHANGED error
    /\ UNCHANGED <<run, clock, resume_exists, resume_file, environ, stub,
                   output_file, resume_text, prompt, raw_output, payload,
                   requests, writes, file_at_start, documents>>

\* Mutant of WriteOutput: the file is written as soon as one section exists.
WriteOutput_AfterFirstSection ==
    /\ pc = "loop"
    /\ lens_index > 1
    /\ output_file' = output_document(clock, sections)
    /\ writes' = writes + 1
    /\ documents' = Append(documents, output_document(clock, sections))
    /\ pc' = "done"
    /\ UNCHANGED <<run, clock, resume_exists, resume_file, environ, stub,
                   resume_text, lens_index, prompt, raw_output, payload, sections,
                   error, requests, file_at_start>>

\* Lines 151 and 157-164: the loop is over; the document is built and written.
WriteOutput ==
    /\ pc = "loop"
    /\ lens_index > Len(LENSES)
    /\ output_file' = output_document(clock, sections)
    /\ writes' = writes + 1
    /\ documents' = Append(documents, output_document(clock, sections))
    /\ pc' = "done"
    /\ UNCHANGED <<run, clock, resume_exists, resume_file, environ, stub,
                   resume_text, lens_index, prompt, raw_output, payload, sections,
                   error, requests, file_at_start>>

\* The program is started again, at the same second or later, with the same
\* resume, environment and endpoint; OUTPUT_PATH keeps what the last run left.
StartAgain ==
    /\ pc \in {"done", "failed"}
    /\ run < MaxRuns
    /\ run' = run + 1
    /\ clock' \in {clock, clock + 1}
    /\ pc' = "start"
    /\ resume_text' = <<>>
    /\ lens_index' = 0
    /\ prompt' = <<>>
    /\ raw_output' = JNull
    /\ payload' = JNull
    /\ sections' = <<>>
    /\ error' = NoError
    /\ requests' = <<>>
    /\ writes' = 0
    /\ file_at_start' = output_file
    /\ UNCHANGED <<resume_exists, resume_file, environ, stub, output_file,
                   documents>>

Next ==
    \/ LoadResume
    \/ BuildPrompt
    \/ CallHuggingFace
    \/ ExtractBlock
    \/ AppendSection
    \/ WriteOutput
    \/ StartAgain

Spec == Init /\ [][Next]_vars

---------------------------------------------------------------------------
(* Harnesses: one step of the program entered with inputs drawn from       *)
(* bounded sets.                                                           *)

\* All texts over an alphabet, up to a length.
RECURSIVE TextsUpTo(_, _)
TextsUpTo(alphabet, n) ==
    IF n = 0 THEN {<<>>}
    ELSE LET shorter == TextsUpTo(alphabet, n - 1)
         IN  shorter \cup {Append(x, c) : x \in {y \in shorter : Len(y) = n - 1},
                                          c \in alphabet}

DefaultEnviron == [HF_API_TOKEN |-> "hf_primary", HF_TOKEN |-> Unset, HF_MODEL |-> Unset]

\* The sections appended before the loop reaches entry k of LENSES.
PriorSections(k) ==
    [i \in 1..(k - 1) |-> lens_result(LENSES[i], JDict(<<>>, <<>>)).val]

\* A run that has loaded the resume and is at position p in the loop body for
\* entry k of LENSES.
InLoop(p, k, text) ==
    /\ pc = p
    /\ run = 1
    /\ clock = 1
    /\ resume_exists = TRUE
    /\ resume_file = text
    /\ output_file = NoFile
    /\ resume_text = text
    /\ lens_index = k
    /\ sections = PriorSections(k)
    /\ error = NoError
    /\ writes = 0
    /\ file_at_start = NoFile
    /\ documents = <<>>

(* extract_json_block *)

MaxTextLen == 5
MaxAffixLen == 2

BraceAlphabet == {"{", "}", "x"}

\* {"a":1}   {"a":{"b":1}}   {"a":1,}   {"a" 1}
JsonCores ==
    {<<"{", "\"", "a", "\"", ":", "1", "}">>,
     <<"{", "\"", "a", "\"", ":", "{", "\"", "b", "\"", ":", "1", "}", "}">>,
     <<"{", "\"", "a", "\"", ":", "1", ",", "}">>,
     <<"{", "\"", "a", "\"", " ", "1", "}">>}

\* {"a":1} blah {
TEXT_TRAILING_OPEN ==
    <<"{", "\"", "a", "\"", ":", "1", "}", " ", "blah", " ", "{">>

\* blah {"a":1} blah
TEXT_COMMENTARY ==
    <<"blah", " ", "{", "\"", "a", "\"", ":", "1", "}", " ", "blah">>

ExtractTexts ==
    TextsUpTo(BraceAlphabet, MaxTextLen)
    \cup {pre \o core \o suf : pre \in TextsUpTo(BraceAlphabet, MaxAffixLen),
                               core \in JsonCores,
                               suf \in TextsUpTo(BraceAlphabet, MaxAffixLen)}
    \cup {TEXT_TRAILING_OPEN, TEXT_COMMENTARY}

ExtractInit ==
    /\ InLoop("extract", 1, <<"r">>)
    /\ environ = DefaultEnviron
    /\ prompt = build_prompt(<<"r">>, LENSES[1].instruction)
    /\ stub = <<>>
    /\ requests = <<>>
    /\ raw_output \in {JStr(x) : x \in ExtractTexts}
    /\ payload = JNull

ExtractSpec == ExtractInit /\ [][ExtractBlock]_vars

(* call_hugging_face *)

MaxBodyItems == 2

Quoted(s) == <<"\"">> \o s \o <<"\"">>

\* "x"   ""   1   0   null   true   x
BodyScalars ==
    {Quoted(<<"x">>), Quoted(<<>>), <<"1">>, <<"0">>, <<"null">>, <<"true">>, <<"x">>}

\* {}   {"generated_text":v}   {"error":v}
BodyObjects ==
    {<<"{", "}">>}
    \cup {<<"{">> \o Quoted(<<k>>) \o <<":">> \o v \o <<"}">> :
            k \in {"generated_text", "error"}, v \in BodyScalars}

BodyElements == BodyScalars \cup BodyObjects \cup {<<"[", "]">>}

\* Up to n elements separated by commas.
RECURSIVE BodyItems(_)
BodyItems(n) ==
    IF n = 0 THEN {<<>>}
    ELSE IF n = 1 THEN {<<>>} \cup BodyElements
    ELSE LET fewer == BodyItems(n - 1)
         IN  fewer \cup {x \o <<",">> \o e : x \in fewer \ {<<>>}, e \in BodyElements}

\* A value, an array of values, or an array cut short.
Bodies ==
    BodyElements
    \cup {<<"[">> \o x \o <<"]">> : x \in BodyItems(MaxBodyItems)}
    \cup {<<"[">> \o e : e \in BodyElements}

DecodeInit ==
    /\ InLoop("call", 1, <<"r">>)
    /\ environ = DefaultEnviron
    /\ prompt = build_prompt(<<"r">>, LENSES[1].instruction)
    /\ stub \in {(prompt :> Outcome("ok", 200, b)) : b \in Bodies}
    /\ requests = <<>>
    /\ raw_output = JNull
    /\ payload = JNull

DecodeSpec == DecodeInit /\ [][CallHuggingFace]_vars

(* generate_sections: the fields *)

MaxBullets == 4
MaxBulletChars == 5

\* Values of the summary field.
SummaryValues ==
    {JStr(<<>>), JStr(<<" ">>), JStr(<<"h">>), JStr(<<" ", " ", "hi", " ", " ">>),
     JStr(<<"\n", "h", " ", "i", "\t">>), JNull, JNum(<<"7">>)}

\* Elements of a bullets array.
BulletValues ==
    {JStr(<<>>), JStr(<<" ">>), JStr(<<"a">>), JStr(<<" ", "a", " ">>), JStr(<<"b">>),
     JNum(<<"7">>)}

RECURSIVE BulletLists(_)
BulletLists(n) ==
    IF n = 0 THEN {<<>>}
    ELSE LET shorter == BulletLists(n - 1)
         IN  shorter \cup {Append(x, b) : x \in {y \in shorter : Len(y) = n - 1},
                                          b \in BulletValues}

\* ["  a  ", "", "b", "c", "d"]
BULLETS_EXAMPLE ==
    <<JStr(<<" ", " ", "a", " ", " ">>), JStr(<<>>), JStr(<<"b">>), JStr(<<"c">>),
      JStr(<<"d">>)>>

\* Values of the bullets field: arrays, strings, and values that are neither.
BulletsValues ==
    {JList(x) : x \in BulletLists(MaxBullets) \cup {BULLETS_EXAMPLE}}
    \cup {JStr(x) : x \in TextsUpTo({" ", "a", "b"}, MaxBulletChars)}
    \cup {JNum(<<"7">>), JNull, JDict(<<<<"k">>, <<" ">>>>, <<JNull, JNull>>)}

\* The objects a reply can hold: each field present or absent.
Payloads ==
    {JDict(<<SUMMARY, BULLETS>>, <<sv, bv>>) : sv \in SummaryValues, bv \in BulletsValues}
    \cup {JDict(<<BULLETS>>, <<bv>>) : bv \in BulletsValues}
    \cup {JDict(<<SUMMARY>>, <<sv>>) : sv \in SummaryValues}
    \cup {JDict(<<>>, <<>>)}

FieldsInit ==
    /\ \E k \in 1..Len(LENSES) : InLoop("assemble", k, <<"r">>)
    /\ environ = DefaultEnviron
    /\ prompt = build_prompt(<<"r">>, LENSES[lens_index].instruction)
    /\ stub = <<>>
    /\ requests = <<>>
    /\ raw_output = JNull
    /\ payload \in Payloads

FieldsSpec == FieldsInit /\ [][AppendSection]_vars

(* generate_sections: the prompt *)

MaxResumeLen == 4

PromptResumes == TextsUpTo({" ", "\n", "r"}, MaxResumeLen)

PromptInit ==
    /\ \E k \in 1..Len(LENSES), text \in PromptResumes : InLoop("loop", k, text)
    /\ environ = DefaultEnviron
    /\ prompt = <<>>
    /\ stub = <<>>
    /\ requests = <<>>
    /\ raw_output = JNull
    /\ payload = JNull

PromptSpec == PromptInit /\ [][BuildPrompt]_vars

---------------------------------------------------------------------------
(* Properties                                                              *)

Failed == pc = "failed"
Done == pc = "done"

\* A credential can be resolved: one of the two variables is set and non-empty.
HasCredential ==
    \/ environ.HF_API_TOKEN \notin {Unset, ""}
    \/ environ.HF_TOKEN \notin {Unset, ""}

\* C1: all-or-nothing output.  A run that fails for any reason, the resume
\* being missing included, never writes OUTPUT_PATH, which keeps what it held
\* when the run began; the file changes only by the single write that comes
\* after every entry of LENSES has produced a section.
C1_AllOrNothing ==
    /\ writes <= 1
    /\ Failed => writes = 0 /\ output_file = file_at_start
    /\ ~resume_exists => writes = 0
    /\ ~Done => writes = 0 /\ output_file = file_at_start
    /\ writes = 1 =>
          /\ Done
          /\ error = NoError
          /\ Len(sections) = Len(LENSES)
          /\ output_file.lenses = sections

\* A second run fails at its last lens while the first run's file is in place.
C1_Witness ==
    /\ Failed
    /\ run = 2
    /\ Len(sections) = Len(LENSES) - 1
    /\ output_file = OldDocument
    /\ Len(requests) = Len(LENSES)

\* C7: no request is sent unless the resume was loaded and a credential was
\* resolved from HF_API_TOKEN or HF_TOKEN.  Without the resume file the run
\* fails with FileNotFoundError before any prompt is built or request sent;
\* without a credential it fails with EnvironmentError before the first request.
C7_PreconditionsFirst ==
    /\ requests # <<>> =>
          /\ resume_exists
          /\ resume_text = resume_file
          /\ HasCredential
          /\ \A i \in 1..Len(requests) :
                requests[i].authorization[2] \in
                    {environ.HF_API_TOKEN, environ.HF_TOKEN} \ {Unset, ""}
    /\ (~resume_exists /\ pc # "start") =>
          /\ Failed
          /\ error.type = "FileNotFoundError"
          /\ lens_index = 0
          /\ prompt = <<>>
          /\ requests = <<>>
          /\ sections = <<>>
    /\ (resume_exists /\ ~HasCredential) =>
          /\ pc \in {"start", "loop", "call", "failed"}
          /\ requests = <<>>
          /\ Failed => error.type = "EnvironmentError" /\ lens_index = 1

\* A run with the resume loaded and the first prompt built has failed for want
\* of a credential, HF_API_TOKEN being set but empty.
C7_Witness ==
    /\ Failed
    /\ requests = <<>>
    /\ resume_exists
    /\ ~HasCredential
    /\ environ.HF_API_TOKEN = ""
    /\ prompt # <<>>

\* C8: runs with the same resume, environment, table and endpoint write
\* documents that agree on model_hint and on the whole lenses sequence; only
\* generated_at may differ.
C8_Deterministic ==
    \A i, j \in 1..Len(documents) :
        /\ documents[i].model_hint = documents[j].model_hint
        /\ documents[i].lenses = documents[j].lenses

\* Two runs have written, at different seconds.
C8_Witness ==
    /\ Len(documents) = 2
    /\ documents[1].generated_at # documents[2].generated_at
    /\ Len(documents[2].lenses) = Len(LENSES)

\* C9: requests are sent for a prefix of LENSES in table order, one per entry
\* reached and never two for the same entry; a request is sent only when every
\* earlier entry has its section; no request follows a failure; and a finished
\* run's lenses hold one section per entry, in table order, with distinct ids.
C9_SequentialSingleAttempt ==
    /\ Len(requests) <= Len(LENSES)
    /\ \A i \in 1..Len(requests) :
          requests[i].inputs = build_prompt(resume_text, LENSES[i].instruction)
    /\ \A i, j \in 1..Len(requests) : i # j => requests[i].inputs # requests[j].inputs
    /\ Len(sections) <= Len(requests)
    /\ Len(requests) <= Len(sections) + 1
    /\ pc \in {"loop", "call"} => Len(requests) = Len(sections)
    /\ pc \in {"extract", "assemble"} => Len(requests) = Len(sections) + 1
    /\ \A i \in 1..Len(sections) : sections[i].id = LENSES[i].id
    /\ Done =>
          /\ Len(output_file.lenses) = Len(LENSES)
          /\ \A i \in 1..Len(LENSES) : output_file.lenses[i].id = LENSES[i].id
          /\ \A i, j \in 1..Len(LENSES) :
                i # j => output_file.lenses[i].id # output_file.lenses[j].id
          /\ Len(requests) = Len(LENSES)

\* A run failed at its second lens after one request per lens reached.
C9_Witness ==
    /\ Failed
    /\ Len(sections) = 1
    /\ Len(requests) = 2
    /\ error.type = "RuntimeError"

---------------------------------------------------------------------------
(* Properties of single steps                                              *)

HasText(s) == \E i \in 1..Len(s) : s[i] \notin Whitespace

\* t is s without its leading and trailing whitespace.
IsStripOf(t, s) ==
    \E a \in 1..(Len(s) + 1), b \in 0..Len(s) :
        /\ t = SubSeq(s, a, b)
        /\ \A i \in 1..(a - 1) : s[i] \in Whitespace
        /\ \A i \in (b + 1)..Len(s) : s[i] \in Whitespace
        /\ t # <<>> => t[1] \notin Whitespace /\ t[Len(t)] \notin Whitespace

\* needle occurs in hay as a contiguous run.
Contains(hay, needle) ==
    \E k \in 0..(Len(hay) - Len(needle)) : SubSeq(hay, k + 1, k + Len(needle)) = needle

\* The i of S with exactly n members of S below it.
Nth(S, n) == CHOOSE i \in S : Cardinality({k \in S : k < i}) = n - 1

AtMost(n, m) == IF n < m THEN n ELSE m

\* The step AppendSection has been taken.
Assembled == pc \in {"loop", "failed"}

\* { "summary": "  hi  ", "bullets": ["  a  ", "", "b", "c", "d"] }
PAYLOAD_EXAMPLE ==
    JDict(<<SUMMARY, BULLETS>>,
          <<JStr(<<" ", " ", "hi", " ", " ">>), JList(BULLETS_EXAMPLE)>>)

\* C2: when the bullets field is an array or absent, the step succeeds; the
\* summary is the stringified field trimmed (empty when absent); key_points are
\* the first 3, in order, of the elements that still have text after being
\* stringified and trimmed.  Every section has at most 3 key_points, none
\* empty, none with surrounding whitespace.
C2_FieldExtraction ==
    Assembled =>
        LET bullets == dict_get(payload, BULLETS, JList(<<>>))
            given == IF dict_has(payload, SUMMARY)
                     THEN py_str(dict_get(payload, SUMMARY, JNull)) ELSE <<>>
            made == sections[Len(sections)]
            Kept == {i \in 1..Len(bullets.kids) : HasText(py_str(bullets.kids[i]))}
        IN  /\ bullets.t = "list" =>
                /\ pc = "loop"
                /\ IsStripOf(made.summary, given)
                /\ Len(made.key_points) = AtMost(Cardinality(Kept), 3)
                /\ \A j \in 1..Len(made.key_points) :
                      IsStripOf(made.key_points[j], py_str(bullets.kids[Nth(Kept, j)]))
            /\ pc = "loop" =>
                /\ Len(made.key_points) <= 3
                /\ \A j \in 1..Len(made.key_points) :
                      /\ made.key_points[j] # <<>>
                      /\ made.key_points[j][1] \notin Whitespace
                      /\ made.key_points[j][Len(made.key_points[j])] \notin Whitespace
            /\ payload = PAYLOAD_EXAMPLE =>
                /\ made.summary = <<"hi">>
                /\ made.key_points = <<<<"a">>, <<"b">>, <<"c">>>>

\* The example of the specification has been assembled.
C2_Witness ==
    /\ pc = "loop"
    /\ payload = PAYLOAD_EXAMPLE
    /\ Len(sections[Len(sections)].key_points) = 3

\* C10: when the bullets field is a string, the step neither fails nor keeps
\* the string as one entry: key_points are the first three characters of the
\* string that are not whitespace, one entry each, and the loop goes on to the
\* next entry of LENSES.
C10_StringBullets ==
    (Assembled /\ dict_get(payload, BULLETS, JNull).t = "str") =>
        LET s == dict_get(payload, BULLETS, JNull).s
            made == sections[Len(sections)]
            Kept == {i \in 1..Len(s) : s[i] \notin Whitespace}
        IN  /\ pc = "loop"
            /\ Len(sections) = lens_index - 1
            /\ made.id = LENSES[lens_index - 1].id
            /\ Len(made.key_points) = AtMost(Cardinality(Kept), 3)
            /\ \A j \in 1..Len(made.key_points) : made.key_points[j] = <<s[Nth(Kept, j)]>>

\* A string with whitespace and four other characters was read.
C10_Witness ==
    /\ pc = "loop"
    /\ dict_get(payload, BULLETS, JNull) = JStr(<<"a", " ", "b", "a", "b">>)
    /\ sections[Len(sections)].key_points = <<<<"a">>, <<"b">>, <<"a">>>>

IsFirstOpen(s, a) == s[a] = "{" /\ \A j \in 1..(a - 1) : s[j] # "{"
IsLastClose(s, b) == s[b] = "}" /\ \A j \in (b + 1)..Len(s) : s[j] # "}"

\* No "{", or no "}", or the last "}" before the first "{".
NoJsonCase(s) ==
    \/ \A i \in 1..Len(s) : s[i] # "{"
    \/ \A i \in 1..Len(s) : s[i] # "}"
    \/ \E a, b \in 1..Len(s) : IsFirstOpen(s, a) /\ IsLastClose(s, b) /\ b < a

\* The step ExtractBlock has been taken.
Extracted == pc \in {"assemble", "failed"}

\* C3: extract_json_block fails with the no-JSON error when the text has no
\* "{", no "}", or its last "}" before its first "{"; otherwise it parses exactly
\* the text from the first "{" to the last "}", returns the object when that
\* parses and fails with a JSON syntax error when it does not.
C3_FirstToLast ==
    Extracted =>
        LET s == raw_output.s
        IN  IF NoJsonCase(s)
            THEN /\ Failed
                 /\ error.type = "ValueError"
                 /\ error.msg = "Model response did not contain JSON"
            ELSE \E a, b \in 1..Len(s) :
                    /\ IsFirstOpen(s, a)
                    /\ IsLastClose(s, b)
                    /\ IF json_loads(SubSeq(s, a, b)).ok
                       THEN pc = "assemble" /\ payload = json_loads(SubSeq(s, a, b)).val
                       ELSE Failed /\ error.type = "JSONDecodeError"
                                   /\ error.val = JStr(SubSeq(s, a, b))

\* Two complete objects with text between them: the span from the first "{"
\* to the last "}" is not one object, and the call failed on it.
C3_Witness ==
    /\ Failed
    /\ error.type = "JSONDecodeError"
    /\ raw_output.s = <<"{", "}", "x", "{", "}">>

\* C4 as stated: for the text {"a":1} blah { the span selected is the whole
\* text and the call fails.
C4_Original ==
    (Extracted /\ raw_output = JStr(TEXT_TRAILING_OPEN)) =>
        /\ json_snippet(raw_output.s) = TEXT_TRAILING_OPEN
        /\ Failed

\* C4 as amended: for the text {"a":1} blah { the span selected is {"a":1},
\* which ends at the only "}", and the call returns the object {"a": 1}.
C4_TrailingOpenIgnored ==
    (Extracted /\ raw_output = JStr(TEXT_TRAILING_OPEN)) =>
        /\ json_snippet(raw_output.s) = <<"{", "\"", "a", "\"", ":", "1", "}">>
        /\ pc = "assemble"
        /\ payload = JDict(<<<<"a">>>>, <<JNum(<<"1">>)>>)

\* extract_json_block has been applied to {"a":1} blah {
C4_Witness ==
    /\ Extracted
    /\ raw_output = JStr(TEXT_TRAILING_OPEN)

\* The body is valid JSON of one of the two recognised shapes.
Recognised(body) ==
    LET p == json_loads(body)
    IN  /\ p.ok
        /\ \/ /\ p.val.t = "list"
              /\ p.val.kids # <<>>
              /\ p.val.kids[1].t = "dict"
              /\ dict_has(p.val.kids[1], GENERATED_TEXT)
           \/ /\ p.val.t = "dict"
              /\ dict_has(p.val, GENERATED_TEXT)

\* C5: after a 2xx exchange call_hugging_face returns only for a body of a
\* recognised shape, and for every other body fails with an error that carries
\* the payload.
C5_ShapeOrPayloadError ==
    pc \in {"extract", "failed"} =>
        LET body == stub[prompt].body
        IN  /\ pc = "extract" => Recognised(body)
            /\ ~Recognised(body) => Failed /\ error.val # NoPayload

\* C6: the prompt holds the resume text and the entry's instruction, each as an
\* unmodified contiguous run.
C6_PromptVerbatim ==
    pc = "call" =>
        /\ Contains(prompt, resume_text)
        /\ Contains(prompt, LENSES[lens_index].instruction)

====
